---- MODULE Spec2Model ----
(***************************************************************************)
(* A model of the ray tracer: the sphere intersection and nearest-hit fold *)
(* (hittable.rs), the root finder (math.rs), the recursive ray_color and   *)
(* the parallel per-pixel render loop (camera.rs), the averaging of        *)
(* samples (math.rs), the image serializer (image.rs) and the construction *)
(* of the camera (Camera::new, camera.rs; Size::aspect_ratio, image.rs).   *)
(*                                                                         *)
(* Numbers.  Coordinates are integers.  A ray parameter t is an integer    *)
(* count of ticks of 1/TicksPerUnit, so that the lower bound 0.001 of      *)
(* ray_color's t_range is exactly one tick.  Only rays and spheres whose   *)
(* roots are whole half units are drawn (OnGrid), so that the roots are    *)
(* exact.  A color channel is an integer in units of 1/ColorUnit: sums of  *)
(* channels are exact, a product or quotient of channels rounds down.      *)
(***************************************************************************)
EXTENDS Integers, Sequences, FiniteSets, TLC

VARIABLES
    \* One call of an intersection routine: its arguments, which routine ran,
    \* and what it returned.
    h_ray, h_list, h_t_range, h_op, h_out,
    \* One top-level call of Camera::ray_color and its recursion: where the
    \* innermost call stands ("call": entered, "return": returning rc_ret, "done":
    \* the top-level call has returned), its depth and ray, the attenuations the
    \* callers up the stack will multiply into the result (innermost first), the
    \* scene, the depth of the top-level call, and how many times the scene was
    \* queried for a hit and a material's scatter was invoked.
    \*   rc_bounces   the attenuations of the scatters that returned a ray, in the
    \*                order the bounces were taken (history)
    \*   rc_terminal  None, or Some record of how the innermost call ended without
    \*                recursing and on which ray (history)
    rc_pc, rc_depth, rc_ray, rc_stack, rc_ret, rc_scene, rc_depth0,
    hit_queries, scatter_calls, rc_bounces, rc_terminal,
    \* One call of Camera::render and the serialization of its image.
    \*   image_size  the camera's image size
    \*   iter_next   how many items the enumerated iproduct iterator has handed out
    \*   running     per worker thread: None, or Some pixel task it is running
    \*   results     per worker thread: the (i, color) pairs its tasks returned
    \*   collected   the collected Vec before it is sorted
    \*   image       None until render returns, then Some Image
    \*   output      None until the image is formatted, then Some list of lines
    \*   computed    per pixel (x, y): None, or Some record of what its task
    \*               computed (history)
    \*   task_count  per index i: how many tasks were started for it (history)
    \*   rng_users   per generator: the workers that drew from it (history)
    image_size, iter_next, running, results, collected, image, output,
    computed, task_count, rng_users,
    \* One direct call of VectorExt::average: its argument and its result.
    avg_in, avg_out,
    \* One call of Camera::new: its arguments image_width and aspect_ratio, and
    \* None until it ends, then Some outcome (the Camera returned, or the panic
    \* that unwound it).
    cam_width, cam_aspect, cam_out

hvars == <<h_ray, h_list, h_t_range, h_op, h_out>>
rcvars == <<rc_pc, rc_depth, rc_ray, rc_stack, rc_ret, rc_scene, rc_depth0,
            hit_queries, scatter_calls, rc_bounces, rc_terminal>>
rvars == <<image_size, iter_next, running, results, collected, image, output,
           computed, task_count, rng_users>>
avars == <<avg_in, avg_out>>
cvars == <<cam_width, cam_aspect, cam_out>>

\* ------------------------------------------------------------------ bounds

\* Longest list of objects a HittableList holds in the model.
MaxObjects == 2
\* Largest depth ray_color is started with (MAX_DEPTH, 50 in camera.rs, is one
\* such depth).
MaxDepth == 3
\* Largest number of pixels of an image.
MaxPixels == 4
\* Number of worker threads of the pool.
NumWorkers == 2
\* Samples averaged per pixel (SAMPLES_PER_PIXEL, 500 in camera.rs).
SamplesPerPixel == 2
\* Longest sequence handed to a direct call of average.
MaxVectors == 3
\* Largest image_width Camera::new is called with.
MaxWidth == 6
\* Largest numerator and denominator of the aspect_ratio Camera::new is
\* called with.
MaxRatioTerm == 4

\* ------------------------------------------------------- numeric constants

\* Ticks of t per unit: 0.001 (camera.rs:100) is one tick.
TicksPerUnit == 1000
\* The lower bound 0.001 of ray_color's t_range, in ticks.
T_MIN == 1
\* f64::INFINITY, the upper bound of ray_color's t_range: above every root.
INFINITY == 1000000000

\* Option<T>: None is the empty sequence, Some(x) the one-element sequence.
None == <<>>
Some(x) == <<x>>
IsSome(o) == o # None
Unwrap(o) == o[1]

\* --------------------------------------------------------------- vectors

Vec(x, y, z) == [x |-> x, y |-> y, z |-> z]
VAdd(a, b) == Vec(a.x + b.x, a.y + b.y, a.z + b.z)
VSub(a, b) == Vec(a.x - b.x, a.y - b.y, a.z - b.z)
VScale(k, a) == Vec(k * a.x, k * a.y, k * a.z)
VNeg(a) == Vec(-a.x, -a.y, -a.z)
Dot(a, b) == a.x * b.x + a.y * b.y + a.z * b.z
Magnitude2(a) == Dot(a, a)

Abs(n) == IF n < 0 THEN -n ELSE n

\* Ray { origin, direction }.
Ray(origin, direction) == [origin |-> origin, direction |-> direction]
\* Ray::at(t) scaled by TicksPerUnit: TicksPerUnit*origin + t*direction.
RayAt(ray, t) == VAdd(VScale(TicksPerUnit, ray.origin), VScale(t, ray.direction))

\* RangeInclusive<f64>::contains.
Range(start, end) == [start |-> start, end |-> end]
Contains(t_range, t) == t_range.start <= t /\ t <= t_range.end

\* ------------------------------------------------------------- parabola

\* sqrt of a perfect square (the inputs are drawn so that it is one).
Sqrt(n, bound) == CHOOSE s \in 0..bound : s * s = n \/ (s = bound /\ \A r \in 0..bound : r * r # n)

\* num/den in ticks: TicksPerUnit*num/den, rounded toward zero.
TickDiv(num, den) ==
    LET n == TicksPerUnit * num
        q == Abs(n) \div Abs(den)
    IN  IF (n < 0) = (den < 0) THEN q ELSE -q

\* roots::find_roots_quadratic(a2, a1, a0): No, One or Two roots; Two in
\* ascending order.
find_roots_quadratic(a2, a1, a0) ==
    IF a2 = 0
    THEN IF a1 = 0
         THEN IF a0 = 0 THEN <<0>> ELSE <<>>
         ELSE <<TickDiv(-a0, a1)>>
    ELSE LET discriminant == a1 * a1 - 4 * a2 * a0
             a2x2 == 2 * a2
         IN  IF discriminant < 0 THEN <<>>
             ELSE IF discriminant = 0 THEN <<TickDiv(-a1, a2x2)>>
             ELSE LET sq == Sqrt(discriminant, Abs(a1) + Abs(a2) + Abs(a0))
                      x1 == TickDiv(-a1 - sq, a2x2)
                      x2 == TickDiv(-a1 + sq, a2x2)
                  IN  IF x1 < x2 THEN <<x1, x2>> ELSE <<x2, x1>>

\* The order the comment on ParabolaRoots::Two describes: by absolute value.
minmax_by_abs(r0, r1) == IF Abs(r1) < Abs(r0) THEN <<r1, r0>> ELSE <<r0, r1>>

\* std::cmp::minmax_by(r0, r1, |x, y| x.partial_cmp(y).unwrap()): [min, max]
\* by numeric value; the first argument comes first when they compare equal.
minmax_by(r0, r1) == IF r1 < r0 THEN <<r1, r0>> ELSE <<r0, r1>>

\* Parabola::roots: the roots as the list None -> <<>>, One(r) -> <<r>>,
\* Two(r1, r2) -> <<r1, r2>>.
ParabolaRoots(a, b, c) ==
    LET r == find_roots_quadratic(a, b, c)
    IN  IF Len(r) = 2 THEN minmax_by(r[1], r[2]) ELSE r

\* ----------------------------------------------------------- hit records

\* HitRecord::new with the normal left as handed in.
HitRecordNew_NoFlip(material, ray, t, outward_normal) ==
    [point |-> RayAt(ray, t),
     normal |-> outward_normal,
     t |-> t,
     front_face |-> Dot(ray.direction, outward_normal) < 0,
     material |-> material]

\* HitRecord::new.  point is scaled by TicksPerUnit; outward_normal is any
\* positive multiple of the unit normal (only its direction is used).
HitRecordNew(material, ray, t, outward_normal) ==
    LET front_face == Dot(ray.direction, outward_normal) < 0
    IN  [point |-> RayAt(ray, t),
         normal |-> IF front_face THEN outward_normal ELSE VNeg(outward_normal),
         t |-> t,
         front_face |-> front_face,
         material |-> material]

\* Sphere { center, radius, material }.
Sphere(center, radius, material) ==
    [center |-> center, radius |-> radius, material |-> material]

\* (ray.at(t) - center) / radius, multiplied by TicksPerUnit*|radius|.
SphereOutwardNormal(sphere, ray, t) ==
    LET d == VSub(RayAt(ray, t), VScale(TicksPerUnit, sphere.center))
    IN  IF sphere.radius < 0 THEN VNeg(d) ELSE d

\* The coefficients Sphere::hit hands to Parabola::new.
SphereParabola(sphere, ray) ==
    LET oc == VSub(ray.origin, sphere.center)
    IN  [a |-> Magnitude2(ray.direction),
         b |-> 2 * Dot(oc, ray.direction),
         c |-> Magnitude2(oc) - sphere.radius * sphere.radius]

\* The first root of rs, from index k on, that t_range contains.
RECURSIVE FirstInRange(_, _, _)
FirstInRange(rs, k, t_range) ==
    IF k > Len(rs) THEN None
    ELSE IF Contains(t_range, rs[k]) THEN Some(rs[k])
    ELSE FirstInRange(rs, k + 1, t_range)

\* Sphere::hit.
SphereHit(sphere, ray, t_range) ==
    LET p == SphereParabola(sphere, ray)
        rs == ParabolaRoots(p.a, p.b, p.c)
        t == FirstInRange(rs, 1, t_range)
    IN  IF IsSome(t)
        THEN Some(HitRecordNew(sphere.material, ray, Unwrap(t),
                               SphereOutwardNormal(sphere, ray, Unwrap(t))))
        ELSE None

\* Option::or.
OptionOr(a, b) == IF IsSome(a) THEN a ELSE b

\* The fold's closure with every object tried against the whole t_range.
HitFoldStep_NoShrink(current, object, ray, t_range) ==
    OptionOr(SphereHit(object, ray, t_range), current)

\* The fold's closure with the closest t so far excluded from the range the
\* next object is tried against (one tick below it).
HitFoldStep_ExclusiveEnd(current, object, ray, t_range) ==
    LET next == SphereHit(object, ray,
                    Range(t_range.start,
                          IF IsSome(current) THEN Unwrap(current).t - 1 ELSE t_range.end))
    IN  OptionOr(next, current)

\* The fold's closure of HittableList::hit: one object against the range
\* shrunk to the closest hit so far.
HitFoldStep(current, object, ray, t_range) ==
    LET next == SphereHit(object, ray,
                    Range(t_range.start,
                          IF IsSome(current) THEN Unwrap(current).t ELSE t_range.end))
    IN  OptionOr(next, current)

\* HittableList::hit: the fold over the first k objects of list.
RECURSIVE HitFold(_, _, _, _)
HitFold(list, k, ray, t_range) ==
    IF k = 0 THEN None
    ELSE HitFoldStep(HitFold(list, k - 1, ray, t_range), list[k], ray, t_range)

HittableListHit(list, ray, t_range) == HitFold(list, Len(list), ray, t_range)

\* ------------------------------------------------------- colors, materials

\* One in color channel units: a channel value v stands for v/ColorUnit.
ColorUnit == 10

\* Color::zero(), Color::new(1., 1., 1.) and Color::new(0.5, 0.7, 1.).
Black == Vec(0, 0, 0)
White == Vec(ColorUnit, ColorUnit, ColorUnit)
SkyBlue == Vec(ColorUnit \div 2, (7 * ColorUnit) \div 10, ColorUnit)

Material(kind, attenuation) == [kind |-> kind, attenuation |-> attenuation]
Lambertian(attenuation) == Material("Lambertian", attenuation)
Metal(attenuation) == Material("Metal", attenuation)
Dielectric == Material("Dielectric", White)
\* A Material implementation outside the three of material.rs, whose scatter
\* may return no ray (Scatter.ray is an Option).
Absorber(attenuation) == Material("Absorber", attenuation)

\* ------------------------------------------------------------ input sets

Grey == Vec(ColorUnit \div 2, ColorUnit \div 2, ColorUnit \div 2)
Gold == Vec((8 * ColorUnit) \div 10, (6 * ColorUnit) \div 10, (2 * ColorUnit) \div 10)

Spheres ==
    { Sphere(Vec(0, 0, 0), 5, Lambertian(Grey)),
      Sphere(Vec(10, 0, 0), 5, Metal(Gold)),
      Sphere(Vec(8, 0, 0), 2, Dielectric),
      Sphere(Vec(0, 3, 0), 5, Absorber(Grey)),
      Sphere(Vec(-4, 5, 0), 5, Metal(Grey)) }

Rays ==
    { Ray(o, d) : o \in {Vec(0, 0, 0), Vec(-8, 0, 0), Vec(20, 0, 0)},
                  d \in {Vec(1, 0, 0), Vec(-1, 0, 0), Vec(2, 0, 0), Vec(0, 1, 0), Vec(0, -1, 0)} }

Ranges ==
    { Range(T_MIN, INFINITY), Range(-INFINITY, INFINITY),
      Range(0, 4 * TicksPerUnit), Range(-6 * TicksPerUnit, 6 * TicksPerUnit),
      Range(-20 * TicksPerUnit, -TicksPerUnit) }

\* A root of the quadratics of the model is a whole number of half units.
HalfUnit == TicksPerUnit \div 2
HalfUnits == -80..80

\* 4*(a*t^2 + b*t + c) at t = k/2, that is at k*HalfUnit ticks.
ParabolaAtHalves(p, k) == p.a * k * k + 2 * p.b * k + 4 * p.c

\* The real roots of the sphere's quadratic along the ray, in ticks, from the
\* equation itself.
RealRoots(sphere, ray) ==
    { k * HalfUnit : k \in { h \in HalfUnits : ParabolaAtHalves(SphereParabola(sphere, ray), h) = 0 } }

\* Every real root of the sphere's quadratic along the ray is a point of TGrid.
OnGrid(sphere, ray) ==
    LET p == SphereParabola(sphere, ray)
        discriminant == p.b * p.b - 4 * p.a * p.c
    IN  Cardinality(RealRoots(sphere, ray)) =
            IF discriminant < 0 THEN 0 ELSE IF discriminant = 0 THEN 1 ELSE 2

\* The lists of at most MaxObjects spheres, in every order.
Lists == UNION { [1..n -> Spheres] : n \in 0..MaxObjects }

Normals == { Vec(x, y, 0) : x \in -1..1, y \in -1..1 }

Min(S) == CHOOSE m \in S : \A x \in S : m <= x

\* -------------------------------------------------- ray_color's helpers

\* The scenes ray_color is run on: nothing to hit; one sphere around the
\* origin; spheres of every material.
Scenes ==
    { <<>>,
      <<Sphere(Vec(0, 0, 0), 5, Lambertian(Grey))>>,
      <<Sphere(Vec(0, 3, 0), 5, Absorber(Grey)), Sphere(Vec(8, 0, 0), 2, Dielectric)>>,
      <<Sphere(Vec(10, 0, 0), 5, Metal(Gold)), Sphere(Vec(0, 0, 0), 5, Lambertian(Grey)),
        Sphere(Vec(0, 3, 0), 5, Absorber(Grey))>> }

\* RangeInclusive::new(0.001, f64::INFINITY).
RayColorRange == Range(T_MIN, INFINITY)

\* A guard that no depth satisfies.
DepthExhausted_Never(depth) == depth < 0

\* depth == 0.
DepthExhausted(depth) == depth = 0

\* A recursive call at the caller's own depth.
RecursiveDepth_Same(depth) == depth

\* The depth of the recursive call: depth - 1.
RecursiveDepth(depth) == depth - 1

\* Vector::mul_element_wise on colors.
MulElementWise(c, attenuation) ==
    Vec((c.x * attenuation.x) \div ColorUnit,
        (c.y * attenuation.y) \div ColorUnit,
        (c.z * attenuation.z) \div ColorUnit)

\* ray.direction.normalize().y, in color units (the directions of the model
\* have a whole length).
UnitY(direction) ==
    (direction.y * ColorUnit) \div Sqrt(Magnitude2(direction), Magnitude2(direction))

\* Color::new(1., 1., 1.).lerp(Color::new(0.5, 0.7, 1.), 0.5 * (unit.y + 1.)).
SkyColor(ray) ==
    LET amount2 == UnitY(ray.direction) + ColorUnit
        Lerp(a, b) == a + ((b - a) * amount2) \div (2 * ColorUnit)
    IN  Vec(Lerp(White.x, SkyBlue.x), Lerp(White.y, SkyBlue.y), Lerp(White.z, SkyBlue.z))

\* How a call of ray_color ends without recursing: "depth" (depth == 0),
\* "no ray" (the scatter returned no ray) or "miss" (nothing was hit), and the
\* ray of that call.
Terminal(cause, ray) == [cause |-> cause, ray |-> ray]

\* Scatter { attenuation, ray }.
Scatter(attenuation, ray) == [attenuation |-> attenuation, ray |-> ray]

\* What Material::scatter may return on a hit, over the draws of the random
\* generator.  Lambertian, Metal and Dielectric always return a ray, from the
\* hit point in a drawn direction (here: any ray of Rays); Dielectric's
\* attenuation is (1, 1, 1); another Material may return no ray.
ScatterOutcomes(material, ray, hit_record) ==
    LET attenuation == IF material.kind = "Dielectric" THEN White ELSE material.attenuation
    IN  { Scatter(attenuation, Some(r)) : r \in Rays }
        \union (IF material.kind = "Absorber" THEN {Scatter(attenuation, None)} ELSE {})

RcIdle ==
    /\ rc_pc = "idle"
    /\ rc_depth = 0
    /\ rc_depth0 = 0
    /\ rc_ray = Ray(Vec(0, 0, 0), Vec(1, 0, 0))
    /\ rc_scene = <<>>
    /\ rc_stack = <<>>
    /\ rc_ret = Black
    /\ hit_queries = 0
    /\ scatter_calls = 0
    /\ rc_bounces = <<>>
    /\ rc_terminal = None

\* ------------------------------------------------------ render's helpers

\* const SAMPLES_PER_PIXEL.
SAMPLES_PER_PIXEL == SamplesPerPixel

\* const MAX_COLOR_CHANNEL.
MAX_COLOR_CHANNEL == 255

Workers == 1..NumWorkers

\* Size { width, height } and Size::len.
Size(width, height) == [width |-> width, height |-> height]
SizeLen(size) == size.width * size.height

\* The image sizes of a constructed camera, of at most MaxPixels pixels.
ImageSizes ==
    { Size(w, h) : <<w, h>> \in { p \in (1..MaxPixels) \X (1..MaxPixels) : p[1] * p[2] <= MaxPixels } }

\* The colors ray_color may return for a sample of pixel (x, y), over the draws
\* of the generator: the samples of the top-left pixel differ with the draw,
\* those of the other pixels come out the same whatever the draw, white or gold
\* by position.
SampleColors(x, y) ==
    IF x = 0 /\ y = 0 THEN {Black, Gold}
    ELSE IF (x + y) % 2 = 1 THEN {White}
    ELSE {Gold}

\* The arguments of a direct call of average: the non-empty sequences of at
\* most MaxVectors of these colors.
AverageInputs == UNION { [1..n -> {Gold, White}] : n \in 1..MaxVectors }

\* The image sizes render is run on next to the direct calls of average.
FewPixels == { size \in ImageSizes : SizeLen(size) <= 2 }

\* Item i (from 0) of iproduct!(0..height, 0..width).enumerate(): (i, (y, x)),
\* the last range varying fastest.
IProduct(size, i) == [i |-> i, y |-> i \div size.width, x |-> i % size.width]

\* An iterator that hands the same item out again.
IterAdvance_Again(n) == n

\* Iterator::next on the bridged iterator: each item is handed out once.
IterAdvance(n) == n + 1

\* One generator for every thread.
ThreadRng_Shared(w) == 1

\* thread_rng(): the handle to the generator local to the thread the task runs
\* on; generators are named by their thread.
ThreadRng(w) == w

\* The counter n of average before the first element.
AverageInitialN == 1

\* sum / f64::from(n), on each channel.
VDiv(sum, n) == Vec(sum.x \div n, sum.y \div n, sum.z \div n)

\* The state of VectorExt::average while its reduce runs: the accumulator
\* (None before the first element) and the counter n.
AverageStart == [acc |-> None, n |-> AverageInitialN]

\* A reduce that counts the first element too.
AverageReduce_CountFirst(st, b) ==
    IF st.acc = None
    THEN [acc |-> Some(b), n |-> st.n + 1]
    ELSE [acc |-> Some(VAdd(Unwrap(st.acc), b)), n |-> st.n + 1]

\* reduce takes the next element: the first one becomes the accumulator, each
\* later one goes through the closure |a, b| { n += 1; a + b }.
AverageReduce(st, b) ==
    IF st.acc = None
    THEN [acc |-> Some(b), n |-> st.n]
    ELSE [acc |-> Some(VAdd(Unwrap(st.acc), b)), n |-> st.n + 1]

\* The iterator is exhausted: sum / n (expect panics on an empty iterator, so
\* st.acc is Some here).
AverageFinish(st) == VDiv(Unwrap(st.acc), st.n)

\* reduce over the first k elements of vectors.
RECURSIVE AverageFold(_, _)
AverageFold(vectors, k) ==
    IF k = 0 THEN AverageStart ELSE AverageReduce(AverageFold(vectors, k - 1), vectors[k])

\* VectorExt::average on a non-empty sequence.
Average(vectors) == AverageFinish(AverageFold(vectors, Len(vectors)))

\* e inserted into sorted after the elements whose key is not larger.
Insert(sorted, e) ==
    LET k == Cardinality({ j \in 1..Len(sorted) : sorted[j][1] <= e[1] })
    IN  SubSeq(sorted, 1, k) \o <<e>> \o SubSeq(sorted, k + 1, Len(sorted))

\* The Vec left in the order it was collected in.
SortByKey_Unsorted(data) == data

\* slice::sort_by_key(|t| t.0): a stable insertion of each element in turn.
RECURSIVE SortByKey(_)
SortByKey(data) ==
    IF data = <<>> THEN <<>>
    ELSE Insert(SortByKey(SubSeq(data, 1, Len(data) - 1)), data[Len(data)])

\* The per-worker result lists chained in the order given.
RECURSIVE Chain(_, _)
Chain(lists, order) ==
    IF order = <<>> THEN <<>> ELSE lists[Head(order)] \o Chain(lists, Tail(order))

\* The orders in which the workers' lists may be chained.
WorkerOrders == { o \in [Workers -> Workers] : \A a, b \in Workers : a # b => o[a] # o[b] }

\* ColorDisplay's convert_channel: u8::conv_nearest(255 * v).
ConvertChannel(v) == (2 * MAX_COLOR_CHANNEL * v + ColorUnit) \div (2 * ColorUnit)

\* The line ColorDisplay writes for a color.
ColorLine(c) == <<ConvertChannel(c.x), ConvertChannel(c.y), ConvertChannel(c.z)>>

\* Image::new(size, pixel_data).
Image(size, pixel_data) == [size |-> size, pixel_data |-> pixel_data]

\* Display for Image: the three header lines, then one line per color.
ImageDisplay(img) ==
    <<"P3", <<img.size.width, img.size.height>>, MAX_COLOR_CHANNEL>>
        \o [k \in 1..Len(img.pixel_data) |-> ColorLine(img.pixel_data[k])]

RenderIdle ==
    /\ image_size = Size(0, 0)
    /\ iter_next = 0
    /\ running = [w \in Workers |-> None]
    /\ results = [w \in Workers |-> <<>>]
    /\ collected = <<>>
    /\ image = None
    /\ output = None
    /\ computed = <<>>
    /\ task_count = <<>>
    /\ rng_users = [g \in Workers |-> {}]

AvgIdle ==
    /\ avg_in = <<>>
    /\ avg_out = None

\* ------------------------------------------------- Camera::new's helpers

\* How a call ends: it returns a value, or it panics with a message.
Returned(value) == [kind |-> "returned", value |-> value, message |-> ""]
Panicked(message) == [kind |-> "panic", value |-> <<>>, message |-> message]

\* Integer::gcd on usize: gcd(n, 0) = n, gcd(0, 0) = 0.
RECURSIVE Gcd(_, _)
Gcd(a, b) == IF b = 0 THEN a ELSE Gcd(b, a % b)

\* usize / usize: division by zero panics.
UsizeDiv(a, b) ==
    IF b = 0 THEN Panicked("attempt to divide by zero") ELSE Returned(a \div b)

\* Ratio<usize> { numer, denom }.
Ratio(numer, denom) == [numer |-> numer, denom |-> denom]

\* Ratio::new(numer, denom): panics on a zero denominator, else reduces to
\* lowest terms.
RatioNew(numer, denom) ==
    IF denom = 0
    THEN Panicked("denominator == 0")
    ELSE LET g == Gcd(numer, denom)
         IN  Returned(Ratio(numer \div g, denom \div g))

\* Ratio::from(t): t / 1.
RatioFrom(t) == Ratio(t, 1)

\* Ratio / Ratio: cross-reduces by the two gcds, then Ratio::new on
\* (a/gcd_ac * (d/gcd_bd), b/gcd_bd * (c/gcd_ac)) for a/b divided by c/d.
RatioDiv(lhs, rhs) ==
    LET gcd_ac == Gcd(lhs.numer, rhs.numer)
        gcd_bd == Gcd(lhs.denom, rhs.denom)
    IN  IF gcd_ac = 0 \/ gcd_bd = 0
        THEN UsizeDiv(lhs.numer, 0)
        ELSE RatioNew((lhs.numer \div gcd_ac) * (rhs.denom \div gcd_bd),
                      (lhs.denom \div gcd_bd) * (rhs.numer \div gcd_ac))

\* Ratio::to_integer: the quotient rounded towards zero.
RatioToInteger(r) == r.numer \div r.denom

\* An f64: finite, in thousandths, or one of the values a division by zero
\* gives.
F64(milli) == [class |-> "finite", milli |-> milli]
F64Infinite == [class |-> "infinite", milli |-> 0]
F64NaN == [class |-> "NaN", milli |-> 0]
IsFinite(f) == f.class = "finite"

\* Ratio::to_f64 on a ratio of a nonzero denominator.
RatioToF64(r) == F64((r.numer * 1000) \div r.denom)

\* f64 * f64 on finite values.
F64Mul(f, g) == F64((f.milli * g.milli) \div 1000)

\* f64 / (n.cast()): x / 0 is infinite, 0 / 0 is NaN; no panic.
F64DivUsize(f, n) ==
    IF n # 0 THEN F64(f.milli \div n)
    ELSE IF f.milli = 0 THEN F64NaN ELSE F64Infinite

\* 2. * FOCUS_DISTANCE * (CAMERA_VERTICAL_FOV.to_radians() / 2.).tan():
\* 20 tan(10 degrees) = 3.527, in thousandths.
ViewportHeightMilli == 3527

\* Size::aspect_ratio: Ratio::new(width, height).to_f64().unwrap().
SizeAspectRatio(size) ==
    LET ratio == RatioNew(size.width, size.height)
    IN  IF ratio.kind = "panic" THEN ratio ELSE Returned(RatioToF64(ratio.value))

\* Camera::new(image_width, aspect_ratio), as far as the image size and the
\* lengths of the two pixel step vectors: a panic of a step ends the call.
CameraNew(image_width, aspect_ratio) ==
    LET quotient == RatioDiv(RatioFrom(image_width), aspect_ratio)
    IN  IF quotient.kind = "panic" THEN quotient
        ELSE
        LET size == Size(image_width, RatioToInteger(quotient.value))
            viewport_height == F64(ViewportHeightMilli)
            aspect == SizeAspectRatio(size)
        IN  IF aspect.kind = "panic" THEN aspect
            ELSE
            LET viewport_width == F64Mul(aspect.value, viewport_height)
            IN  Returned([image_size |-> size,
                          pixel_delta_vectors |->
                              [u |-> F64DivUsize(viewport_width, size.width),
                               v |-> F64DivUsize(viewport_height, size.height)]])

\* The aspect ratios Ratio::new builds from small terms.
AspectRatios ==
    { RatioNew(n, d).value : n \in 0..MaxRatioTerm, d \in 1..MaxRatioTerm }

CamIdle ==
    /\ cam_width = 1
    /\ cam_aspect = Ratio(1, 1)
    /\ cam_out = None

\* ------------------------------------------- the intersection routines

\* What a call returns: the object it was made on (0: none), the roots
\* (Parabola::roots), the outward normal handed in (HitRecord::new), the hit.
HOut(object, roots, outward_normal, hit) ==
    [object |-> object, roots |-> roots, outward_normal |-> outward_normal, hit |-> hit]

HIdle ==
    /\ h_ray = Ray(Vec(0, 0, 0), Vec(1, 0, 0))
    /\ h_list = <<>>
    /\ h_t_range = Range(T_MIN, INFINITY)
    /\ h_op = "idle"
    /\ h_out = HOut(0, <<>>, Vec(0, 0, 0), None)

InitHit ==
    /\ RcIdle
    /\ RenderIdle
    /\ AvgIdle
    /\ CamIdle
    /\ h_ray \in Rays
    /\ h_list \in { l \in Lists : \A i \in 1..Len(l) : OnGrid(l[i], h_ray) }
    /\ h_t_range \in Ranges
    /\ h_op = "start"
    /\ h_out = HOut(0, <<>>, Vec(0, 0, 0), None)

\* Parabola::new(a, b, c).roots() on the quadratic of object i.
CallParabolaRoots ==
    /\ h_op = "start"
    /\ \E i \in 1..Len(h_list) :
          LET p == SphereParabola(h_list[i], h_ray)
          IN  h_out' = HOut(i, ParabolaRoots(p.a, p.b, p.c), Vec(0, 0, 0), None)
    /\ h_op' = "Parabola::roots"
    /\ UNCHANGED <<h_ray, h_list, h_t_range>>

\* Sphere::hit(ray, t_range) on object i.
CallSphereHit ==
    /\ h_op = "start"
    /\ \E i \in 1..Len(h_list) :
          h_out' = HOut(i, <<>>, Vec(0, 0, 0), SphereHit(h_list[i], h_ray, h_t_range))
    /\ h_op' = "Sphere::hit"
    /\ UNCHANGED <<h_ray, h_list, h_t_range>>

\* HittableList::hit(ray, t_range) on the whole list.
CallHittableListHit ==
    /\ h_op = "start"
    /\ h_out' = HOut(0, <<>>, Vec(0, 0, 0), HittableListHit(h_list, h_ray, h_t_range))
    /\ h_op' = "HittableList::hit"
    /\ UNCHANGED <<h_ray, h_list, h_t_range>>

\* HitRecord::new(material, ray, t, outward_normal) on any normal and any t.
CallHitRecordNew ==
    /\ h_op = "start"
    /\ \E n \in Normals, i \in 1..Len(h_list), t \in {0, T_MIN, TicksPerUnit} :
          h_out' = HOut(i, <<>>, n, Some(HitRecordNew(h_list[i].material, h_ray, t, n)))
    /\ h_op' = "HitRecord::new"
    /\ UNCHANGED <<h_ray, h_list, h_t_range>>

NextHit ==
    \/ CallParabolaRoots /\ UNCHANGED <<rcvars, rvars, avars, cvars>>
    \/ CallSphereHit /\ UNCHANGED <<rcvars, rvars, avars, cvars>>
    \/ CallHittableListHit /\ UNCHANGED <<rcvars, rvars, avars, cvars>>
    \/ CallHitRecordNew /\ UNCHANGED <<rcvars, rvars, avars, cvars>>

vars == <<hvars, rcvars, rvars, avars, cvars>>

SpecHit == InitHit /\ [][NextHit]_vars

\* -------------------------------------------------------- ray_color

InitRayColor ==
    /\ HIdle
    /\ RenderIdle
    /\ AvgIdle
    /\ CamIdle
    /\ rc_pc = "call"
    /\ rc_depth0 \in 0..MaxDepth
    /\ rc_depth = rc_depth0
    /\ rc_ray \in Rays
    /\ rc_scene \in Scenes
    /\ rc_stack = <<>>
    /\ rc_ret = Black
    /\ hit_queries = 0
    /\ scatter_calls = 0
    /\ rc_bounces = <<>>
    /\ rc_terminal = None

\* ray_color is entered with depth 0 (camera.rs:95-97).
RayColorExhausted ==
    /\ rc_pc = "call"
    /\ DepthExhausted(rc_depth)
    /\ rc_ret' = Black
    /\ rc_pc' = "return"
    /\ rc_terminal' = Some(Terminal("depth", rc_ray))
    /\ UNCHANGED <<rc_depth, rc_ray, rc_stack, rc_scene, rc_depth0, hit_queries, scatter_calls,
                   rc_bounces>>

\* ray_color is entered with depth > 0 and the ray hits nothing
\* (camera.rs:100, 110-114).
RayColorMiss ==
    /\ rc_pc = "call"
    /\ ~DepthExhausted(rc_depth)
    /\ HittableListHit(rc_scene, rc_ray, RayColorRange) = None
    /\ hit_queries' = hit_queries + 1
    /\ rc_ret' = SkyColor(rc_ray)
    /\ rc_pc' = "return"
    /\ rc_terminal' = Some(Terminal("miss", rc_ray))
    /\ UNCHANGED <<rc_depth, rc_ray, rc_stack, rc_scene, rc_depth0, scatter_calls, rc_bounces>>

\* ray_color is entered with depth > 0, the ray hits, and the material
\* scatters: no ray, and the call returns black; or a ray, and ray_color
\* recurses on it, the caller left to multiply by the attenuation
\* (camera.rs:100-108).
RayColorHit ==
    /\ rc_pc = "call"
    /\ ~DepthExhausted(rc_depth)
    /\ LET hit == HittableListHit(rc_scene, rc_ray, RayColorRange)
       IN  /\ IsSome(hit)
           /\ \E scatter \in ScatterOutcomes(Unwrap(hit).material, rc_ray, Unwrap(hit)) :
                 \/ /\ scatter.ray = None
                    /\ rc_ret' = Black
                    /\ rc_pc' = "return"
                    /\ rc_terminal' = Some(Terminal("no ray", rc_ray))
                    /\ UNCHANGED <<rc_depth, rc_ray, rc_stack, rc_bounces>>
                 \/ /\ IsSome(scatter.ray)
                    /\ rc_stack' = <<scatter.attenuation>> \o rc_stack
                    /\ rc_depth' = RecursiveDepth(rc_depth)
                    /\ rc_ray' = Unwrap(scatter.ray)
                    /\ rc_pc' = "call"
                    /\ rc_bounces' = Append(rc_bounces, scatter.attenuation)
                    /\ UNCHANGED <<rc_ret, rc_terminal>>
    /\ hit_queries' = hit_queries + 1
    /\ scatter_calls' = scatter_calls + 1
    /\ UNCHANGED <<rc_scene, rc_depth0>>

\* A return that hands the callee's color up unchanged.
RayColorReturn_NoMultiply ==
    /\ rc_pc = "return"
    /\ IF rc_stack = <<>>
       THEN /\ rc_pc' = "done"
            /\ UNCHANGED <<rc_ret, rc_stack, rc_depth>>
       ELSE /\ rc_stack' = Tail(rc_stack)
            /\ rc_depth' = rc_depth + 1
            /\ UNCHANGED <<rc_pc, rc_ret>>
    /\ UNCHANGED <<rc_ray, rc_scene, rc_depth0, hit_queries, scatter_calls, rc_bounces,
                   rc_terminal>>

\* The innermost call returns rc_ret: to its caller, which multiplies it
\* element-wise by its scatter's attenuation and returns in turn
\* (camera.rs:105-106), or, from the top-level call, to the caller of ray_color.
RayColorReturn ==
    /\ rc_pc = "return"
    /\ IF rc_stack = <<>>
       THEN /\ rc_pc' = "done"
            /\ UNCHANGED <<rc_ret, rc_stack, rc_depth>>
       ELSE /\ rc_ret' = MulElementWise(rc_ret, Head(rc_stack))
            /\ rc_stack' = Tail(rc_stack)
            /\ rc_depth' = rc_depth + 1
            /\ UNCHANGED rc_pc
    /\ UNCHANGED <<rc_ray, rc_scene, rc_depth0, hit_queries, scatter_calls, rc_bounces,
                   rc_terminal>>

NextRayColor ==
    \/ RayColorExhausted /\ UNCHANGED <<hvars, rvars, avars, cvars>>
    \/ RayColorMiss /\ UNCHANGED <<hvars, rvars, avars, cvars>>
    \/ RayColorHit /\ UNCHANGED <<hvars, rvars, avars, cvars>>
    \/ RayColorReturn /\ UNCHANGED <<hvars, rvars, avars, cvars>>

SpecRayColor == InitRayColor /\ [][NextRayColor]_vars

\* ---------------------------------------------------------------- render

\* The state when render is called on a camera whose image size is in sizes.
InitRenderOf(sizes) ==
    /\ image_size \in sizes
    /\ iter_next = 0
    /\ running = [w \in Workers |-> None]
    /\ results = [w \in Workers |-> <<>>]
    /\ collected = <<>>
    /\ image = None
    /\ output = None
    /\ computed = [p \in (0..image_size.width - 1) \X (0..image_size.height - 1) |-> None]
    /\ task_count = [i \in 0..SizeLen(image_size) - 1 |-> 0]
    /\ rng_users = [g \in Workers |-> {}]

InitRender ==
    /\ HIdle
    /\ RcIdle
    /\ AvgIdle
    /\ CamIdle
    /\ InitRenderOf(ImageSizes)

\* An idle worker takes the next item off the bridged iterator and enters the
\* closure: it gets its thread's generator (camera.rs:151-160).
TaskStart(w) ==
    /\ image = None
    /\ running[w] = None
    /\ iter_next < SizeLen(image_size)
    /\ LET item == IProduct(image_size, iter_next)
       IN  /\ running' = [running EXCEPT ![w] =
                  Some([i |-> item.i, x |-> item.x, y |-> item.y, rng |-> ThreadRng(w),
                        drawn |-> 0, average |-> AverageStart])]
           /\ task_count' = [task_count EXCEPT ![item.i] = @ + 1]
    /\ iter_next' = IterAdvance(iter_next)
    /\ UNCHANGED <<image_size, results, collected, image, output, computed, rng_users>>

\* The task's average pulls one more sample: get_ray and ray_color draw from
\* the task's generator and yield a color, which reduce takes
\* (camera.rs:165-168, math.rs:98-102).
TaskSample(w) ==
    /\ IsSome(running[w])
    /\ LET task == Unwrap(running[w])
       IN  /\ task.drawn < SAMPLES_PER_PIXEL
           /\ \E c \in SampleColors(task.x, task.y) :
                 running' = [running EXCEPT ![w] =
                     Some([task EXCEPT !.drawn = @ + 1,
                                       !.average = AverageReduce(@, c)])]
           /\ rng_users' = [rng_users EXCEPT ![task.rng] = @ \union {w}]
    /\ UNCHANGED <<image_size, iter_next, results, collected, image, output, computed, task_count>>

\* The samples are exhausted: average divides, the closure returns (i, color)
\* and the worker keeps it (camera.rs:163-170, math.rs:103-105).
TaskFinish(w) ==
    /\ IsSome(running[w])
    /\ LET task == Unwrap(running[w])
           color == AverageFinish(task.average)
       IN  /\ task.drawn = SAMPLES_PER_PIXEL
           /\ results' = [results EXCEPT ![w] = Append(@, <<task.i, color>>)]
           /\ computed' = [computed EXCEPT ![<<task.x, task.y>>] =
                  Some([color |-> color, samples |-> task.drawn,
                        sum |-> Unwrap(task.average.acc)])]
    /\ running' = [running EXCEPT ![w] = None]
    /\ UNCHANGED <<image_size, iter_next, collected, image, output, task_count, rng_users>>

\* Every item is done: collect moves the workers' results, chained in some
\* order, into one Vec, which is sorted by index; the Image is built from its
\* colors
\* (camera.rs:171-180).
RenderReturn ==
    /\ image = None
    /\ iter_next = SizeLen(image_size)
    /\ \A w \in Workers : running[w] = None
    /\ \E order \in WorkerOrders :
          collected' = Chain(results, order)
    /\ results' = [w \in Workers |-> <<>>]
    /\ LET pixel_data == SortByKey(collected')
       IN  image' = Some(Image(image_size, [k \in 1..Len(pixel_data) |-> pixel_data[k][2]]))
    /\ UNCHANGED <<image_size, iter_next, running, output, computed, task_count, rng_users>>

\* The image render returned is formatted (image.rs:52-68).
Display ==
    /\ IsSome(image)
    /\ output = None
    /\ output' = Some(ImageDisplay(Unwrap(image)))
    /\ UNCHANGED <<image_size, iter_next, running, results, collected, image, computed, task_count, rng_users>>

NextRender ==
    \/ \E w \in Workers : TaskStart(w) /\ UNCHANGED <<hvars, rcvars, avars, cvars>>
    \/ \E w \in Workers : TaskSample(w) /\ UNCHANGED <<hvars, rcvars, avars, cvars>>
    \/ \E w \in Workers : TaskFinish(w) /\ UNCHANGED <<hvars, rcvars, avars, cvars>>
    \/ RenderReturn /\ UNCHANGED <<hvars, rcvars, avars, cvars>>
    \/ Display /\ UNCHANGED <<hvars, rcvars, avars, cvars>>

SpecRender == InitRender /\ [][NextRender]_vars

\* --------------------------------------------------------------- average

InitAverage ==
    /\ HIdle
    /\ RcIdle
    /\ CamIdle
    /\ InitRenderOf(FewPixels)
    /\ avg_in \in AverageInputs
    /\ avg_out = None

\* Color::average(avg_in) is called directly.
AverageCall ==
    /\ avg_out = None
    /\ avg_out' = Some(Average(avg_in))
    /\ UNCHANGED avg_in

NextAverage ==
    \/ AverageCall /\ UNCHANGED <<hvars, rcvars, rvars, cvars>>
    \/ NextRender

SpecAverage == InitAverage /\ [][NextAverage]_vars

\* ------------------------------------------------------------ Camera::new

InitCamera ==
    /\ HIdle
    /\ RcIdle
    /\ RenderIdle
    /\ AvgIdle
    /\ cam_width \in 0..MaxWidth
    /\ cam_aspect \in AspectRatios
    /\ cam_out = None

\* Camera::new(cam_width, cam_aspect) is called (camera.rs:40-91).
CallCameraNew ==
    /\ cam_out = None
    /\ cam_out' = Some(CameraNew(cam_width, cam_aspect))
    /\ UNCHANGED <<cam_width, cam_aspect>>

NextCamera ==
    \/ CallCameraNew /\ UNCHANGED <<hvars, rcvars, rvars, avars>>

SpecCamera == InitCamera /\ [][NextCamera]_vars

\* ------------------------------------------------------------- claims

\* C1: a call of ray_color with depth 0 returns black and neither queries the
\* scene nor invokes scatter: when it returns, the only queries and scatters
\* made are those of its callers up the stack, one each.
C1_DepthZeroBlack ==
    /\ rc_pc = "return" /\ rc_depth = 0 =>
          /\ rc_ret = Black
          /\ hit_queries = Len(rc_stack)
          /\ scatter_calls = Len(rc_stack)
    /\ rc_pc = "done" /\ rc_depth0 = 0 =>
          /\ rc_ret = Black
          /\ hit_queries = 0
          /\ scatter_calls = 0

\* C1 witness: a top-level call with depth 0 has returned black on a ray that
\* the scene would have been hit by.
C1_Witness ==
    /\ rc_pc = "done"
    /\ rc_depth0 = 0
    /\ rc_ret = Black
    /\ IsSome(HittableListHit(rc_scene, rc_ray, RayColorRange))

\* An upper bound on the steps left to the top-level call of ray_color.
StepsLeft ==
    IF rc_pc = "call" THEN 2 * rc_depth + Len(rc_stack) + 2
    ELSE IF rc_pc = "return" THEN Len(rc_stack) + 1
    ELSE 0

\* C2: the depth of each call is one less than its caller's (the k-th nested
\* call runs at the top-level depth minus k), it is never below 0, the scene
\* is queried and scatter invoked at most as many times as the top-level
\* depth, and every step of the recursion lowers a bound on the steps left:
\* the call terminates, whatever the scene and the scatters.
C2_DepthDecreases ==
    /\ [](/\ rc_depth >= 0
          /\ rc_depth + Len(rc_stack) = rc_depth0
          /\ hit_queries <= rc_depth0
          /\ scatter_calls <= hit_queries
          /\ StepsLeft >= 0
          /\ StepsLeft = 0 <=> rc_pc = "done")
    /\ [][StepsLeft' < StepsLeft]_vars

\* C2 witness: every ray hit and every scatter returned a ray, down to depth 0,
\* and the top-level call returned.
C2_Witness ==
    /\ rc_pc = "done"
    /\ rc_depth0 = MaxDepth
    /\ hit_queries = MaxDepth
    /\ scatter_calls = MaxDepth

\* C4: the buffer of the returned image holds at y*width + x the color the
\* task of pixel (x, y) computed.
C4_RowMajor ==
    IsSome(image) =>
        /\ Len(Unwrap(image).pixel_data) = SizeLen(image_size)
        /\ \A x \in 0..image_size.width - 1, y \in 0..image_size.height - 1 :
              /\ IsSome(computed[<<x, y>>])
              /\ Unwrap(image).pixel_data[y * image_size.width + x + 1]
                    = Unwrap(computed[<<x, y>>]).color

\* C4 witness: the results were collected out of index order, the image has
\* more than one row and column and pixels of different colors.
C4_Witness ==
    /\ IsSome(image)
    /\ image_size.width > 1 /\ image_size.height > 1
    /\ \E j \in 1..Len(collected) - 1 : collected[j][1] > collected[j + 1][1]
    /\ \E j, k \in 1..Len(collected) : collected[j][2] # collected[k][2]

\* C8: no generator is drawn from by two workers, and no two tasks running
\* at the same time hold the same generator.
C8_GeneratorNotShared ==
    /\ \A g \in DOMAIN rng_users : Cardinality(rng_users[g]) <= 1
    /\ \A w1, w2 \in Workers :
          w1 # w2 /\ IsSome(running[w1]) /\ IsSome(running[w2]) =>
              Unwrap(running[w1]).rng # Unwrap(running[w2]).rng

\* C8 witness: two tasks run at the same time and both have drawn samples.
C8_Witness ==
    \E w1, w2 \in Workers :
        /\ w1 # w2
        /\ IsSome(running[w1]) /\ IsSome(running[w2])
        /\ Unwrap(running[w1]).drawn > 0 /\ Unwrap(running[w2]).drawn > 0
        /\ rng_users[Unwrap(running[w1]).rng] = {w1}
        /\ rng_users[Unwrap(running[w2]).rng] = {w2}

\* How many entries of the collected Vec carry index i.
Occurrences(i) == Cardinality({ j \in 1..Len(collected) : collected[j][1] = i })

\* C9: no pixel index is given to two tasks; when render returns every index
\* was produced by exactly one task and the buffer has width*height entries;
\* the image, once built, is never changed; and the serializer writes
\* width*height lines after its three header lines.
C9_FilledExactlyOnce ==
    /\ [](/\ \A i \in DOMAIN task_count : task_count[i] <= 1
          /\ IsSome(image) =>
                /\ Len(Unwrap(image).pixel_data) = SizeLen(image_size)
                /\ Len(collected) = SizeLen(image_size)
                /\ \A i \in 0..SizeLen(image_size) - 1 :
                      task_count[i] = 1 /\ Occurrences(i) = 1
          /\ IsSome(output) =>
                /\ IsSome(image)
                /\ Len(Unwrap(output)) = 3 + SizeLen(image_size)
                /\ \A k \in 1..SizeLen(image_size) :
                      Unwrap(output)[3 + k] = ColorLine(Unwrap(image).pixel_data[k]))
    /\ [][IsSome(image) => image' = image]_vars

\* C9 witness: an image of the largest size was rendered and serialized.
C9_Witness ==
    /\ IsSome(output)
    /\ SizeLen(image_size) = MaxPixels
    /\ Len(Unwrap(output)) = 3 + MaxPixels

\* The component-wise sum of the first k vectors.
RECURSIVE SumOf(_, _)
SumOf(vectors, k) == IF k = 0 THEN Vec(0, 0, 0) ELSE VAdd(SumOf(vectors, k - 1), vectors[k])

RootsInRange(i) == { t \in RealRoots(h_list[i], h_ray) : Contains(h_t_range, t) }

\* C5: Sphere::hit returns the hit at the smallest real root of the quadratic
\* that lies in t_range, and None when no root lies in t_range.
C5_SphereHitSmallestRoot ==
    h_op = "Sphere::hit" =>
        IF RootsInRange(h_out.object) = {}
        THEN h_out.hit = None
        ELSE /\ IsSome(h_out.hit)
             /\ Unwrap(h_out.hit).t = Min(RootsInRange(h_out.object))

\* C5 witness: both roots in range, the smaller one negative and of larger
\* absolute value than the other, and the smaller one returned.
C5_Witness ==
    /\ h_op = "Sphere::hit"
    /\ Cardinality(RootsInRange(h_out.object)) = 2
    /\ \E t1, t2 \in RootsInRange(h_out.object) :
          t1 < 0 /\ t1 < t2 /\ Abs(t1) > Abs(t2) /\ IsSome(h_out.hit) /\ Unwrap(h_out.hit).t = t1

\* C6 as claimed: Parabola::roots yields two roots in ascending order of
\* absolute value, and Sphere::hit returns the first root, in that order,
\* that t_range contains.
C6_RootsAscendingAbs ==
    /\ h_op = "Parabola::roots" /\ Len(h_out.roots) = 2 =>
          Abs(h_out.roots[1]) <= Abs(h_out.roots[2])
    /\ h_op = "Sphere::hit" /\ RootsInRange(h_out.object) # {} =>
          /\ IsSome(h_out.hit)
          /\ \A t \in RootsInRange(h_out.object) : Abs(Unwrap(h_out.hit).t) <= Abs(t)

\* The hits the objects of the list report on their own within t_range.
OwnHits == { SphereHit(h_list[i], h_ray, h_t_range) : i \in 1..Len(h_list) } \ {None}

\* C3: HittableList::hit returns None iff no object reports a hit within
\* t_range, and otherwise a hit of one of the objects whose t is the minimum
\* of the t the objects report.
C3_ListHitNearest ==
    h_op = "HittableList::hit" =>
        IF OwnHits = {}
        THEN h_out.hit = None
        ELSE /\ h_out.hit \in OwnHits
             /\ Unwrap(h_out.hit).t = Min({ Unwrap(h).t : h \in OwnHits })

\* C3 witness: two objects hit at different t, the first of the list farther,
\* and the nearer hit is returned.
C3_Witness ==
    /\ h_op = "HittableList::hit"
    /\ Len(h_list) >= 2
    /\ LET h1 == SphereHit(h_list[1], h_ray, h_t_range)
           h2 == SphereHit(h_list[2], h_ray, h_t_range)
       IN  /\ IsSome(h1) /\ IsSome(h2)
           /\ Unwrap(h2).t < Unwrap(h1).t
           /\ h_out.hit = h2

\* C7: a HitRecord has front_face exactly when the ray direction and the
\* outward normal have a negative dot product, stores the outward normal when
\* front_face and its negation otherwise, and its normal never has a positive
\* dot product with the ray direction.
C7_NormalAgainstRay ==
    /\ h_op = "HitRecord::new" =>
          LET hr == Unwrap(h_out.hit)
              n == h_out.outward_normal
          IN  /\ hr.front_face = (Dot(h_ray.direction, n) < 0)
              /\ hr.normal = IF hr.front_face THEN n ELSE VNeg(n)
              /\ Dot(h_ray.direction, hr.normal) <= 0
    /\ h_op = "Sphere::hit" /\ IsSome(h_out.hit) =>
          LET hr == Unwrap(h_out.hit)
              n == SphereOutwardNormal(h_list[h_out.object], h_ray, hr.t)
          IN  /\ hr.front_face = (Dot(h_ray.direction, n) < 0)
              /\ hr.normal = IF hr.front_face THEN n ELSE VNeg(n)
    /\ h_op \in {"Sphere::hit", "HittableList::hit"} /\ IsSome(h_out.hit) =>
          Dot(h_ray.direction, Unwrap(h_out.hit).normal) <= 0

\* C7 witness: the grazing case, the dot product exactly 0 with a nonzero
\* normal.
C7_Witness ==
    /\ h_op = "HitRecord::new"
    /\ h_out.outward_normal # Vec(0, 0, 0)
    /\ Dot(h_ray.direction, h_out.outward_normal) = 0
    /\ ~Unwrap(h_out.hit).front_face
    /\ Unwrap(h_out.hit).normal = VNeg(h_out.outward_normal)

\* The configuration yields a zero image dimension or has a zero aspect ratio:
\* image_width = 0, an aspect ratio above image_width (the derived height is
\* 0), or an aspect ratio of 0.
Degenerate(image_width, aspect_ratio) ==
    \/ image_width = 0
    \/ aspect_ratio.numer = 0
    \/ aspect_ratio.numer > image_width * aspect_ratio.denom

\* Camera::new on a degenerate configuration panics inside the ratio
\* arithmetic, and a Camera it returns has a nonzero image size and finite
\* pixel step vectors.
CameraNewPanicsOnDegenerate ==
    IsSome(cam_out) =>
        LET out == Unwrap(cam_out)
        IN  /\ Degenerate(cam_width, cam_aspect) <=> out.kind = "panic"
            /\ out.kind = "panic" =>
                  out.message \in {"denominator == 0", "attempt to divide by zero"}
            /\ out.kind = "returned" =>
                  /\ out.value.image_size.width > 0
                  /\ out.value.image_size.height > 0
                  /\ IsFinite(out.value.pixel_delta_vectors.u)
                  /\ IsFinite(out.value.pixel_delta_vectors.v)

\* C11: Camera::new on a degenerate configuration (a zero image dimension or a
\* zero aspect ratio) fails with a configuration error that describes the
\* configuration, and never returns a Camera whose pixel step vectors are NaN
\* or infinite.  Camera::new has no error to return: the call ends in a panic
\* of the ratio arithmetic whose message names a denominator or a division.
C11_FailsWithConfigurationError ==
    IsSome(cam_out) /\ Degenerate(cam_width, cam_aspect) =>
        LET out == Unwrap(cam_out)
        IN  /\ out.kind = "configuration error"
            /\ out.kind = "returned" =>
                  /\ IsFinite(out.value.pixel_delta_vectors.u)
                  /\ IsFinite(out.value.pixel_delta_vectors.v)

\* The hit object i of the list reports on its own within t_range.
OwnHit(i) == SphereHit(h_list[i], h_ray, h_t_range)

\* The objects of the list whose own hit is at the closest t any object
\* reports.
Closest ==
    LET hitters == { i \in 1..Len(h_list) : IsSome(OwnHit(i)) }
    IN  { i \in hitters : \A j \in hitters : Unwrap(OwnHit(i)).t <= Unwrap(OwnHit(j)).t }

Max(S) == CHOOSE m \in S : \A x \in S : x <= m

\* The list in the opposite order.
Reverse(list) == [k \in 1..Len(list) |-> list[Len(list) + 1 - k]]

\* C13: when several objects of the list report in-range hits at the same
\* closest t, HittableList::hit returns the hit of the one that comes last in
\* the list, material included; on the list in the opposite order it returns
\* the hit of the one that comes first in this list.
C13_TieLaterWins ==
    h_op = "HittableList::hit" /\ Closest # {} =>
        /\ h_out.hit = OwnHit(Max(Closest))
        /\ Unwrap(h_out.hit).material = h_list[Max(Closest)].material
        /\ HittableListHit(Reverse(h_list), h_ray, h_t_range) = OwnHit(Min(Closest))

\* C13 witness: the two objects of a list report hits at the same t, their
\* materials differ, and the hit returned is the second object's.
C13_Witness ==
    /\ h_op = "HittableList::hit"
    /\ Len(h_list) = 2
    /\ Closest = {1, 2}
    /\ h_list[1].material # h_list[2].material
    /\ h_out.hit = OwnHit(2)
    /\ Unwrap(h_out.hit).material = h_list[2].material

\* The color of a call of ray_color that ends without recursing: black when
\* the depth reached 0 or the scatter returned no ray, the sky gradient of
\* the ray when it missed the scene.
TerminalColor(terminal) ==
    IF terminal.cause = "miss" THEN SkyColor(terminal.ray) ELSE Black

\* The explicit loop on the bounces taken, from bounce k on: it carries the
\* accumulated attenuation product and the remaining depth, returns black when
\* the remaining depth is 0, multiplies a bounce's attenuation into the
\* product, and ends with the product times the terminal color.
RECURSIVE Loop(_, _, _, _, _)
Loop(accumulated, remaining, bounces, terminal, k) ==
    IF remaining = 0 THEN MulElementWise(accumulated, Black)
    ELSE IF k > Len(bounces) THEN MulElementWise(accumulated, TerminalColor(terminal))
    ELSE Loop(MulElementWise(accumulated, bounces[k]), remaining - 1, bounces, terminal, k + 1)

\* The loop started at depth on no bounce taken yet: the product is (1, 1, 1).
LoopColor(depth, bounces, terminal) == Loop(White, depth, bounces, terminal, 1)

\* The terminal color multiplied by the attenuations of the first k bounces,
\* the innermost of them first.
RECURSIVE InnermostFirst(_, _, _)
InnermostFirst(color, bounces, k) ==
    IF k = 0 THEN color
    ELSE InnermostFirst(MulElementWise(color, bounces[k]), bounces, k - 1)

====
